---- MODULE Spec2Model ----
(***************************************************************************)
(* Model of the Smart File Organizer sorter (sorter.py): the poll loop of  *)
(* main, process_files, classify_document, extract_text_from_pdf,          *)
(* get_week_of_month and move_file_to_correct_directory, over an abstract  *)
(* file system.                                                            *)
(*                                                                         *)
(* Representation.  A directory is the sequence of its path components     *)
(* (strings), so os.path.join appends components.  A file name is a        *)
(* sequence of one-character strings, so that endswith, splitext and the   *)
(* "_<counter>" renaming are computed on characters.  A file path is a     *)
(* record [dir, name].  An Optional value is None (the empty sequence) or  *)
(* Some(v) (a one-element sequence).                                       *)
(***************************************************************************)
EXTENDS Naturals, Sequences, FiniteSets, TLC

VARIABLES
    pc,             \* position of main: "setup","load","poll","process","wait","crashed","harness","week"
    crashCause,     \* which call raised out of main ("" while running)
    treeReady,      \* setup_directory_structure has created its directory tree
    madeDirs,       \* the directories that exist besides that tree
    copies,         \* failed moves that left a copy at the destination so far
    inputDir,       \* files under INPUT_DIR: path from INPUT_DIR -> content
    outFiles,       \* files of the output tree: path -> content
    nextDoc,        \* number of documents dropped by the producer so far
    files,          \* process_files: the listing of this cycle
    idx,            \* process_files: index of the file the for loop is at
    processed,      \* process_files: its counter / return value
    remaining,      \* main: remaining_time of the countdown
    listed,         \* observation: content of each listed file at listing time
    outcomes,       \* observation: what happened to each file taken up this cycle
    lastList,       \* observation: how the last listing ended
    lastMove,       \* observation: the last call of move_file_to_correct_directory in this cycle
    lastClassify,   \* observation: the last call of classify_document in this cycle
    classifierCalls,\* observation: every (text, labels) the classifier was called with
    weekDate,       \* get_week_of_month: the date it was last applied to
    weekResult      \* get_week_of_month: what it returned (0 before any call)

vars == <<pc, crashCause, treeReady, madeDirs, copies, inputDir, outFiles, nextDoc, files, idx,
          processed, remaining, listed, outcomes, lastList, lastMove,
          lastClassify, classifierCalls, weekDate, weekResult>>

fsVars == <<madeDirs, copies, inputDir, outFiles>>
cycleVars == <<files, idx, processed, remaining, listed, outcomes, lastList>>
weekVars == <<weekDate, weekResult>>

-----------------------------------------------------------------------------
(* Bounds of the model *)

\* documents the external producer drops into the input directory
MaxDocs == 2

\* failed moves that leave a copy behind at the destination
MaxCopies == 1

\* SORTER_CHECK_INTERVAL, the seconds between two cycles (30 when unset)
CHECK_INTERVAL == 3

-----------------------------------------------------------------------------
(* Module-level configuration of sorter.py *)

INPUT_DIR == <<"./incoming_documents">>
OUTPUT_DIR == <<"./sorted_documents">>

DOCUMENT_TYPES == <<"Invoices", "Protocols", "Reports">>
CANDIDATE_LABELS == <<"Invoice", "Protocol", "Report">>

LABEL_TO_DIR == [l \in {"Invoice", "Protocol", "Report"} |->
                    CASE l = "Invoice" -> "Invoices"
                      [] l = "Protocol" -> "Protocols"
                      [] l = "Report" -> "Reports"]

-----------------------------------------------------------------------------
(* Optional values, strings as character sequences *)

None == <<>>
Some(v) == <<v>>
IsNone(o) == o = <<>>
Get(o) == o[1]

\* str.endswith
EndsWith(s, suffix) ==
    /\ Len(s) >= Len(suffix)
    /\ SubSeq(s, Len(s) - Len(suffix) + 1, Len(s)) = suffix

DotPdf == <<".", "p", "d", "f">>

Digits == <<"0", "1", "2", "3", "4", "5", "6", "7", "8", "9">>

\* the decimal digits of n, as f"{counter}" formats it
RECURSIVE Str(_)
Str(n) == IF n < 10 THEN <<Digits[n + 1]>>
          ELSE Str(n \div 10) \o <<Digits[(n % 10) + 1]>>

\* os.path.splitext on the last component: the extension starts at the last
\* dot, unless only dots precede it (leading dots are part of the stem)
LastDot(s) ==
    IF \E i \in 1..Len(s) : s[i] = "."
    THEN CHOOSE i \in 1..Len(s) :
            s[i] = "." /\ \A j \in (i + 1)..Len(s) : s[j] # "."
    ELSE 0

SplitExt(s) ==
    LET d == LastDot(s) IN
    IF d > 0 /\ \E j \in 1..(d - 1) : s[j] # "."
    THEN [base |-> SubSeq(s, 1, d - 1), ext |-> SubSeq(s, d, Len(s))]
    ELSE [base |-> s, ext |-> <<>>]

\* whitespace removed at both ends (str.strip)
IsSpace(c) == c \in {" ", "\n", "\t"}

RECURSIVE LStrip(_)
LStrip(s) == IF s # <<>> /\ IsSpace(Head(s)) THEN LStrip(Tail(s)) ELSE s

RECURSIVE RStrip(_)
RStrip(s) == IF s # <<>> /\ IsSpace(s[Len(s)])
             THEN RStrip(SubSeq(s, 1, Len(s) - 1)) ELSE s

Strip(s) == RStrip(LStrip(s))

\* os.path.join(directory, file name) and os.path.basename
JoinFile(dir, name) == [dir |-> dir, name |-> name]
Basename(path) == path.name

-----------------------------------------------------------------------------
(* The black boxes: what pdfplumber and the classifier can answer *)

\* pdfplumber.open(file_path): it raises, or gives pages whose extract_text()
\* is None or a string
PdfReads ==
    { [raises |-> TRUE, pages |-> <<>>],
      [raises |-> FALSE, pages |-> <<>>],
      [raises |-> FALSE, pages |-> <<None>>],
      [raises |-> FALSE, pages |-> <<Some(<<" ">>), Some(<<>>)>>],
      [raises |-> FALSE, pages |-> <<Some(<<"t">>)>>],
      [raises |-> FALSE, pages |-> <<Some(<<" ", "t">>), None, Some(<<"\n">>)>>] }

\* classifier(text, CANDIDATE_LABELS): it raises, or gives ranked labels with
\* their scores (in percent)
ClassifierAnswers ==
    { [raises |-> TRUE, labels |-> <<>>, scores |-> <<>>],
      [raises |-> FALSE, labels |-> <<>>, scores |-> <<>>],
      [raises |-> FALSE, labels |-> <<"Invoice">>, scores |-> <<>>],
      [raises |-> FALSE, labels |-> <<"Invoice", "Protocol", "Report">>,
                         scores |-> <<90, 5, 5>>],
      [raises |-> FALSE, labels |-> <<"Report", "Invoice", "Protocol">>,
                         scores |-> <<50, 30, 20>>] }

\* datetime.now() at the time of a move
Dates ==
    { [year |-> 2024, month |-> 6, day |-> 15] }

\* how shutil.move can end: the file is moved; it raises and nothing changed;
\* it raises after writing a partial or a whole copy to the destination (the
\* copy-then-delete path between file systems), the source being kept
MoveEnds == {"ok", "fail", "fail_partial_copy", "fail_whole_copy"}

\* names of the entries the producer drops into the input directory
NamePool ==
    { <<"a", ".", "p", "d", "f">>,
      <<"a", "_", "1", ".", "p", "d", "f">>,
      <<"n", ".", "t", "x", "t">> }

\* a file the input directory holds one level down: a.pdf in the
\* subdirectory s (its path from INPUT_DIR, "/" being the separator)
SubDirFile == <<"s", "/", "a", ".", "p", "d", "f">>

\* where the producer and the users put files
DropNames == NamePool \cup {SubDirFile}

-----------------------------------------------------------------------------
(* extract_text_from_pdf *)

\* for page in pdf.pages: if page_text: text += page_text
RECURSIVE ConcatPages(_)
ConcatPages(pages) ==
    IF pages = <<>> THEN <<>>
    ELSE (IF IsNone(Head(pages)) THEN <<>> ELSE Get(Head(pages)))
            \o ConcatPages(Tail(pages))

extract_text_from_pdf(pdf) ==
    IF pdf.raises THEN <<>> ELSE Strip(ConcatPages(pdf.pages))

-----------------------------------------------------------------------------
(* classify_document: the label it returns and the classifier calls it makes *)

\* the label at the bottom of the ranking is taken
TakeRankedLast(answer) ==
    LET raised == answer.raises \/ answer.labels = <<>> \/ answer.scores = <<>>
    IN [raised |-> raised,
        doc_type |-> IF raised THEN None
                     ELSE Some(answer.labels[Len(answer.labels)])]

\* lines 117-128, the try block: any exception of the call, of
\* result['labels'][0] or of result['scores'][0] ends in the except clause,
\* which returns None
TryClassifier(answer) ==
    LET raised == \/ answer.raises          \* the call itself
                  \/ answer.labels = <<>>   \* result['labels'][0]
                  \/ answer.scores = <<>>   \* result['scores'][0]
    IN [raised |-> raised,
        doc_type |-> IF raised THEN None ELSE Some(answer.labels[1])]

\* the classifier is called whatever the text is
ClassifyAnyText(pdf, answer) ==
    LET text == extract_text_from_pdf(pdf)
        try == TryClassifier(answer)
    IN [called |-> TRUE, text |-> text,
        calls |-> {[text |-> text, labels |-> CANDIDATE_LABELS]},
        answer |-> Some(answer),
        raised |-> try.raised,
        doc_type |-> try.doc_type]

\* `answer` is what the classifier gave when it was called (None when it was
\* not), `raised` whether the except clause was entered
classify_document(pdf, answer) ==
    LET text == extract_text_from_pdf(pdf) IN
    IF text = <<>>
    THEN [called |-> TRUE, text |-> text, calls |-> {}, answer |-> None,
          raised |-> FALSE, doc_type |-> None]
    ELSE LET try == TryClassifier(answer)
         IN [called |-> TRUE, text |-> text,
             calls |-> {[text |-> text, labels |-> CANDIDATE_LABELS]},
             answer |-> Some(answer),
             raised |-> try.raised,
             doc_type |-> try.doc_type]

\* what the observer holds before any call
NoClassify == [called |-> FALSE, text |-> <<>>, calls |-> {}, answer |-> None,
               raised |-> FALSE, doc_type |-> None]

-----------------------------------------------------------------------------
(* get_week_of_month *)

Min(a, b) == IF a < b THEN a ELSE b

\* a week counted from day // 7
WeekFromDayDiv(date) == Min((date.day \div 7) + 1, 5)

get_week_of_month(date) ==
    LET day_of_month == date.day
        week_of_month == ((day_of_month - 1) \div 7) + 1
    IN  Min(week_of_month, 5)

-----------------------------------------------------------------------------
(* move_file_to_correct_directory *)

\* a fallback that forgets the plural
DirNameNoPlural(doc_type) ==
    IF doc_type \in DOMAIN LABEL_TO_DIR THEN LABEL_TO_DIR[doc_type]
    ELSE doc_type

\* LABEL_TO_DIR.get(doc_type, doc_type + "s")
DirName(doc_type) ==
    IF doc_type \in DOMAIN LABEL_TO_DIR THEN LABEL_TO_DIR[doc_type]
    ELSE doc_type \o "s"

TargetDir(doc_type, document_date) ==
    OUTPUT_DIR \o <<DirName(doc_type),
                    ToString(document_date.year),
                    "Month_" \o ToString(document_date.month),
                    "Week_" \o ToString(get_week_of_month(document_date))>>

\* os.makedirs(path, exist_ok=True): the path and its missing ancestors; when
\* it raises, the first `made` components may already have been created
MakeDirs(path, made) == {SubSeq(path, 1, k) : k \in 1..made}

\* f"{base_name}_{counter}{ext}" on a target file path
WithCounter(path, counter) ==
    LET parts == SplitExt(path.name) IN
    [dir |-> path.dir,
     name |-> parts.base \o <<"_">> \o Str(counter) \o parts.ext]

\* no loop: the first counter is taken without looking
ProbeNever(path, counter, existing) == counter

\* while os.path.exists(f"{base_name}_{counter}{ext}"): counter += 1
RECURSIVE ProbeCounter(_, _, _)
ProbeCounter(path, counter, existing) ==
    IF WithCounter(path, counter) \in existing
    THEN ProbeCounter(path, counter + 1, existing)
    ELSE counter

\* no duplicate handling: the target is used as it is
KeepTarget(target_file_path, existing) == target_file_path

\* the "Handle duplicate files" block
ResolveDuplicate(target_file_path, existing) ==
    IF target_file_path \in existing
    THEN WithCounter(target_file_path,
                     ProbeCounter(target_file_path, 1, existing))
    ELSE target_file_path

\* what a call leaves behind for the observer when it has not happened yet
NoMove ==
    [called |-> FALSE, file_path |-> JoinFile(<<>>, <<>>), doc_type |-> None,
     date |-> [year |-> 0, month |-> 0, day |-> 0], before |-> {},
     source |-> None, target_dir |-> None, natural |-> None, target |-> None,
     result |-> None, outcome |-> "none", log |-> None]

\* the file system as one value; dirs are the directories besides the
\* start-up tree, on which os.makedirs(exist_ok=True) changes nothing
FS(d, i, o) == [dirs |-> d, inputDir |-> i, outFiles |-> o]

\* the environment of one move: how many components os.makedirs gets to
\* (all of them: it succeeded) and, after that, how shutil.move ends
TargetDepth == Len(OUTPUT_DIR) + 4

LeavesCopy(env) == env.end \in {"fail_partial_copy", "fail_whole_copy"}

MoveEnvs ==
    {[made |-> k, end |-> "fail"] : k \in 0..(TargetDepth - 1)}
        \cup {[made |-> TargetDepth, end |-> e] : e \in MoveEnds}

\* a move that deletes the source before the copy is known to be there
MoveDeletesFirst(src, dst, end, fs) ==
    LET name == src.name
        present == src.dir = INPUT_DIR /\ name \in DOMAIN fs.inputDir
        gone == [n \in DOMAIN fs.inputDir \ {name} |-> fs.inputDir[n]]
    IN
    IF present /\ end = "ok"
    THEN [raised |-> FALSE,
          fs |-> FS(fs.dirs, gone, (dst :> fs.inputDir[name]) @@ fs.outFiles)]
    ELSE IF present
    THEN [raised |-> TRUE, fs |-> FS(fs.dirs, gone, fs.outFiles)]
    ELSE [raised |-> TRUE, fs |-> fs]

\* a copy: the file arrives at dst and the source stays
CopyKeepsSource(src, dst, end, fs) ==
    LET name == src.name
        present == src.dir = INPUT_DIR /\ name \in DOMAIN fs.inputDir
    IN
    IF present /\ end = "ok"
    THEN [raised |-> FALSE,
          fs |-> FS(fs.dirs, fs.inputDir,
                    (dst :> fs.inputDir[name]) @@ fs.outFiles)]
    ELSE [raised |-> TRUE, fs |-> fs]

\* shutil.move(src, dst): the file leaves the input directory for dst
\* (replacing what dst held); or it raises, the source being kept, and dst
\* untouched or holding a partial or a whole copy
ShutilMove(src, dst, end, fs) ==
    LET name == src.name
        present == src.dir = INPUT_DIR /\ name \in DOMAIN fs.inputDir
    IN
    IF present /\ end = "ok"
    THEN [raised |-> FALSE,
          fs |-> FS(fs.dirs,
                    [n \in DOMAIN fs.inputDir \ {name} |-> fs.inputDir[n]],
                    (dst :> fs.inputDir[name]) @@ fs.outFiles)]
    ELSE IF present /\ end \in {"fail_partial_copy", "fail_whole_copy"}
    THEN [raised |-> TRUE,
          fs |-> FS(fs.dirs, fs.inputDir,
                    (dst :> [doc |-> fs.inputDir[name].doc,
                             whole |-> fs.inputDir[name].whole
                                         /\ end = "fail_whole_copy"])
                        @@ fs.outFiles)]
    ELSE [raised |-> TRUE, fs |-> fs]

\* the target path returned from the except clause too
ReturnTargetAnyway(raised, target_file_path) == Some(target_file_path)

\* lines 192-198: the target path when shutil.move returned, None when it
\* raised
MoveReturn(raised, target_file_path) ==
    IF raised THEN None ELSE Some(target_file_path)

\* lines 166-198: the body after the None check.  The result is the file
\* system afterwards and `info`, what the call did: `result` is the return
\* value, `log` the logger.error record (a directory is logged as a path
\* with an empty file name)
PlanAndMove(file_path, label, document_date, env, fs) ==
    LET target_dir == TargetDir(label, document_date)
        natural == JoinFile(target_dir, Basename(file_path))
        existing == DOMAIN fs.outFiles
        target == ResolveDuplicate(natural, existing)
        name == file_path.name
        present == file_path.dir = INPUT_DIR /\ name \in DOMAIN fs.inputDir
        base == [called |-> TRUE, file_path |-> file_path,
                 doc_type |-> Some(label), date |-> document_date,
                 before |-> existing,
                 source |-> IF present THEN Some(fs.inputDir[name]) ELSE None,
                 target_dir |-> Some(target_dir), natural |-> None,
                 target |-> None, result |-> None, outcome |-> "none",
                 log |-> None]
    IN
    IF env.made < Len(target_dir)
    THEN \* os.makedirs raised OSError
         [fs |-> FS(fs.dirs \cup MakeDirs(target_dir, env.made),
                    fs.inputDir, fs.outFiles),
          info |-> [base EXCEPT
                      !.outcome = "mkdir_failed",
                      !.log = Some([message |-> "Failed to create directory",
                                    path |-> JoinFile(target_dir, <<>>),
                                    error |-> "OSError"])]]
    ELSE
    LET made == fs.dirs \cup MakeDirs(target_dir, Len(target_dir))
        mv == ShutilMove(file_path, target, env.end,
                         FS(made, fs.inputDir, fs.outFiles))
    IN
    [fs |-> mv.fs,
     info |-> [base EXCEPT
                 !.natural = Some(natural),
                 !.target = Some(target),
                 !.result = MoveReturn(mv.raised, target),
                 !.outcome = IF mv.raised THEN "move_failed" ELSE "moved",
                 !.log = IF mv.raised
                         THEN Some([message |-> "Failed to move file",
                                    path |-> file_path,
                                    error |-> "OSError"])
                         ELSE None]]

\* the None check made after the output root has been created
MoveChecksNoneLate(file_path, doc_type, document_date, env, fs) ==
    IF IsNone(doc_type)
    THEN [fs |-> FS(fs.dirs \cup MakeDirs(OUTPUT_DIR, Len(OUTPUT_DIR)),
                    fs.inputDir, fs.outFiles),
          info |-> [NoMove EXCEPT !.called = TRUE, !.file_path = file_path,
                                  !.date = document_date,
                                  !.before = DOMAIN fs.outFiles,
                                  !.outcome = "skip"]]
    ELSE PlanAndMove(file_path, Get(doc_type), document_date, env, fs)

move_file_to_correct_directory(file_path, doc_type, document_date, env, fs) ==
    IF IsNone(doc_type)
    THEN [fs |-> fs,
          info |-> [NoMove EXCEPT !.called = TRUE, !.file_path = file_path,
                                  !.date = document_date,
                                  !.before = DOMAIN fs.outFiles,
                                  !.outcome = "skip"]]
    ELSE PlanAndMove(file_path, Get(doc_type), document_date, env, fs)

-----------------------------------------------------------------------------
(* setup_directory_structure and load_classifier *)

Years == 2020..2030
Months == 1..12
Weeks == 1..5

\* the years stop one short: range(2020, 2030)
SetupPathsTo2029 ==
    { OUTPUT_DIR \o <<DOCUMENT_TYPES[t], ToString(year),
                      "Month_" \o ToString(month), "Week_" \o ToString(week)>> :
        t \in DOMAIN DOCUMENT_TYPES, year \in 2020..2029,
        month \in Months, week \in Weeks }

SetupPaths ==
    { OUTPUT_DIR \o <<DOCUMENT_TYPES[t], ToString(year),
                      "Month_" \o ToString(month), "Week_" \o ToString(week)>> :
        t \in DOMAIN DOCUMENT_TYPES, year \in Years,
        month \in Months, week \in Weeks }

SetupTree ==
    UNION {MakeDirs(path, Len(path)) : path \in SetupPaths}
        \cup MakeDirs(INPUT_DIR, Len(INPUT_DIR))

\* the directories that exist
Dirs == (IF treeReady THEN SetupTree ELSE {}) \cup madeDirs

\* the directories of D that the start-up tree does not already hold
BesidesTree(D) == IF treeReady THEN D \ SetupTree ELSE D

\* os.makedirs is not guarded here: an OSError leaves main.  The directories
\* made before the error are not tracked, the process being gone
setup_directory_structure ==
    /\ pc = "setup"
    /\ \E ok \in BOOLEAN :
        IF ok
        THEN /\ treeReady' = TRUE
             /\ pc' = "load"
             /\ UNCHANGED crashCause
        ELSE /\ pc' = "crashed"
             /\ crashCause' = "setup_directory_structure"
             /\ UNCHANGED treeReady
    /\ UNCHANGED <<fsVars, nextDoc, cycleVars, lastMove,
                   lastClassify, classifierCalls, weekVars>>

\* the except clause logs and re-raises
load_classifier ==
    /\ pc = "load"
    /\ \E ok \in BOOLEAN :
        IF ok
        THEN pc' = "poll" /\ UNCHANGED crashCause
        ELSE pc' = "crashed" /\ crashCause' = "load_classifier"
    /\ UNCHANGED <<treeReady, fsVars, nextDoc, cycleVars, lastMove,
                   lastClassify, classifierCalls, weekVars>>

-----------------------------------------------------------------------------
(* The external producer *)

\* the content of a file: the document it holds, and whether all of it
Document(n) == [doc |-> n, whole |-> TRUE]

\* a new document lands in the input directory under a name not in use.
\* The sorter sees the directory only when it lists it, so drops are taken
\* at the top of a cycle
Drop ==
    /\ pc = "poll"
    /\ nextDoc < MaxDocs
    /\ \E name \in DropNames \ DOMAIN inputDir :
        inputDir' = (name :> Document(nextDoc + 1)) @@ inputDir
    /\ nextDoc' = nextDoc + 1
    /\ UNCHANGED <<pc, crashCause, treeReady, madeDirs, copies, outFiles,
                   cycleVars, lastMove,
                   lastClassify, classifierCalls, weekVars>>

-----------------------------------------------------------------------------
(* main: the poll loop, and process_files *)

\* the orders os.listdir can give the entries in
Orders(S) ==
    {s \in [1..Cardinality(S) -> S] : \A i, j \in DOMAIN s : s[i] = s[j] => i = j}

\* main after process_files returned: the countdown starts at CHECK_INTERVAL;
\* range(CHECK_INTERVAL, 0, -1) is empty when CHECK_INTERVAL < 1
EnterWait ==
    IF CHECK_INTERVAL >= 1
    THEN pc' = "wait" /\ remaining' = CHECK_INTERVAL
    ELSE pc' = "poll" /\ remaining' = 0

\* no try around os.listdir: its OSError leaves process_files and main
ListingErrorEscapes(how) ==
    IF how = "failed"
    THEN /\ pc' = "crashed"
         /\ crashCause' = "process_files"
         /\ lastList' = how
         /\ UNCHANGED <<files, idx, listed, remaining>>
    ELSE /\ files' = <<>>
         /\ idx' = 0
         /\ listed' = << >>
         /\ lastList' = how
         /\ EnterWait
         /\ UNCHANGED crashCause

\* the entry of a directory a path goes through: what comes before the
\* first separator, or the whole of it
TopEntry(path) ==
    IF \E i \in 1..Len(path) : path[i] = "/"
    THEN SubSeq(path, 1,
                (CHOOSE i \in 1..Len(path) :
                    path[i] = "/" /\ \A j \in 1..(i - 1) : path[j] # "/") - 1)
    ELSE path

\* os.listdir(INPUT_DIR): the names of the entries of the directory itself,
\* files and subdirectories alike
ListDir(tree) == {TopEntry(path) : path \in DOMAIN tree}

\* every file below the directory, whatever its name
AllPaths(tree) == DOMAIN tree

\* [f for f in os.listdir(INPUT_DIR) if f.endswith('.pdf')]
PdfNames(tree) == {f \in ListDir(tree) : EndsWith(f, DotPdf)}

\* a failed listing is tried again at once, without the countdown
ListingErrorSkipsWait(how) ==
    /\ files' = <<>>
    /\ idx' = 0
    /\ listed' = << >>
    /\ lastList' = how
    /\ IF how = "failed" THEN pc' = "poll" /\ remaining' = 0 ELSE EnterWait
    /\ UNCHANGED crashCause

\* process_files returns 0 without taking up a file: os.listdir raised
\* OSError (lines 233-235) or the listing holds no .pdf name (237-239)
ReturnZero(how) ==
    /\ files' = <<>>
    /\ idx' = 0
    /\ listed' = << >>
    /\ lastList' = how
    /\ EnterWait
    /\ UNCHANGED crashCause

\* process_files, lines 231-241: the listing
ListFiles ==
    /\ pc = "poll"
    /\ \E raises \in BOOLEAN :
        LET names == PdfNames(inputDir) IN
        IF raises THEN ReturnZero("failed")
        ELSE IF names = {} THEN ReturnZero("empty")
        ELSE /\ \E order \in Orders(names) : files' = order
             /\ UNCHANGED crashCause
             /\ idx' = 1
             /\ listed' = [n \in names |-> inputDir[n]]
             /\ lastList' = "listed"
             /\ pc' = "process"
             /\ UNCHANGED remaining
    /\ processed' = 0
    /\ outcomes' = <<>>
    /\ lastMove' = NoMove
    /\ lastClassify' = NoClassify
    /\ UNCHANGED <<treeReady, fsVars, nextDoc, classifierCalls, weekVars>>

\* a call of move_file_to_correct_directory on the file system of the model.
\* A failed move leaves a copy behind at most MaxCopies times
ApplyMove(file_path, doc_type, document_date, env) ==
    LET m == move_file_to_correct_directory(
                file_path, doc_type, document_date, env,
                FS(madeDirs, inputDir, outFiles))
        leaves == /\ LeavesCopy(env)
                  /\ m.info.outcome = "move_failed"
                  /\ ~IsNone(m.info.source)
    IN
    /\ leaves => copies < MaxCopies
    /\ copies' = IF leaves THEN copies + 1 ELSE copies
    /\ madeDirs' = BesidesTree(m.fs.dirs)
    /\ inputDir' = m.fs.inputDir
    /\ outFiles' = m.fs.outFiles
    /\ lastMove' = m.info

\* a batch that ends at the first file that was not moved
StopAtFailure ==
    IF idx < Len(files) /\ outcomes'[idx].outcome = "moved"
    THEN idx' = idx + 1 /\ UNCHANGED <<pc, remaining>>
    ELSE idx' = idx /\ EnterWait

\* the for loop goes on to the next file of the listing, whatever happened
\* to this one; after the last one process_files returns to main
NextFile ==
    IF idx < Len(files)
    THEN idx' = idx + 1 /\ UNCHANGED <<pc, remaining>>
    ELSE idx' = idx /\ EnterWait

\* process_files, lines 242-258: one iteration of the for loop, and the
\* return to main after the last one
ProcessFile ==
    /\ pc = "process"
    /\ LET file_name == files[idx]
           file_path == JoinFile(INPUT_DIR, file_name)
       IN
       \E pdf \in PdfReads, answer \in ClassifierAnswers :
        LET c == classify_document(pdf, answer) IN
        /\ lastClassify' = c
        /\ classifierCalls' = classifierCalls \cup c.calls
        /\ IF IsNone(c.doc_type)
           THEN /\ outcomes' = Append(outcomes,
                        [name |-> file_name,
                         outcome |-> IF c.text = <<>> THEN "no_text"
                                     ELSE "no_label"])
                /\ UNCHANGED <<fsVars, lastMove, processed>>
           ELSE \E now \in Dates, env \in MoveEnvs :
                /\ ApplyMove(file_path, c.doc_type, now, env)
                /\ processed' = IF IsNone(lastMove'.result) THEN processed
                                ELSE processed + 1
                /\ outcomes' = Append(outcomes,
                        [name |-> file_name, outcome |-> lastMove'.outcome])
    /\ NextFile
    /\ UNCHANGED <<crashCause, treeReady, nextDoc, files, listed, lastList,
                   weekVars>>

\* a countdown that goes down two at a time
TickByTwo ==
    /\ pc = "wait"
    /\ IF remaining > 2
       THEN remaining' = remaining - 2 /\ UNCHANGED pc
       ELSE remaining' = 0 /\ pc' = "poll"
    /\ UNCHANGED <<crashCause, treeReady, fsVars, nextDoc, files, idx,
                   processed, listed,
                   outcomes, lastList, lastMove, lastClassify,
                   classifierCalls, weekVars>>

\* main, lines 282-284: display_sorting_progress and time.sleep(1)
Tick ==
    /\ pc = "wait"
    /\ IF remaining > 1
       THEN remaining' = remaining - 1 /\ UNCHANGED pc
       ELSE remaining' = 0 /\ pc' = "poll"
    /\ UNCHANGED <<crashCause, treeReady, fsVars, nextDoc, files, idx,
                   processed, listed,
                   outcomes, lastList, lastMove, lastClassify,
                   classifierCalls, weekVars>>

NoDate == [year |-> 0, month |-> 0, day |-> 0]

InitObserved ==
    /\ crashCause = ""
    /\ nextDoc = 0
    /\ files = <<>>
    /\ idx = 0
    /\ processed = 0
    /\ remaining = 0
    /\ listed = << >>
    /\ outcomes = <<>>
    /\ lastList = "none"
    /\ lastMove = NoMove
    /\ lastClassify = NoClassify
    /\ classifierCalls = {}
    /\ weekDate = NoDate
    /\ weekResult = 0

\* the state main starts in: nothing set up, no document yet
Init ==
    /\ pc = "setup"
    /\ treeReady = FALSE
    /\ madeDirs = {}
    /\ copies = 0
    /\ inputDir = << >>
    /\ outFiles = << >>
    /\ InitObserved

Next ==
    \/ setup_directory_structure
    \/ load_classifier
    \/ Drop
    \/ ListFiles
    \/ ProcessFile
    \/ Tick

Spec == Init /\ [][Next]_vars

\* main is one thread that runs until it is stopped from outside: whichever
\* of the listing, the next file of the batch and the next second of the
\* countdown is due, happens (every call is taken to return)
Fairness ==
    /\ WF_vars(ListFiles)
    /\ WF_vars(ProcessFile)
    /\ WF_vars(Tick)

FairSpec == Spec /\ Fairness

-----------------------------------------------------------------------------
(* move_file_to_correct_directory called on its own, as its tests call it: *)
(* one call, on a file system and with arguments drawn from bounded sets   *)

\* the labels and dates it is called with
MoveLabels == {"Invoice", "Protocol", "Report", "Foo"}

MoveDates ==
    { [year |-> 2024, month |-> 6, day |-> 15],
      [year |-> 2024, month |-> 1, day |-> 1],
      [year |-> 2031, month |-> 1, day |-> 29] }

\* files the output tree can hold from earlier runs
Existing == [doc |-> 0, whole |-> TRUE]

Week1 == OUTPUT_DIR \o <<"Invoices", "2024", "Month_1", "Week_1">>

EarlierTrees ==
    LET a == JoinFile(Week1, <<"a", ".", "p", "d", "f">>)
        a_1 == JoinFile(Week1, <<"a", "_", "1", ".", "p", "d", "f">>)
    IN { << >>, (a :> Existing), (a_1 :> Existing),
         (a :> Existing) @@ (a_1 :> Existing) }

\* what the input directory holds: nothing (the source is missing), or
\* documents under names of NamePool
InputDirs ==
    { << >> } \cup {(n :> Document(1)) : n \in NamePool}
        \cup {(p[1] :> Document(1)) @@ (p[2] :> Document(2)) :
                    p \in {q \in NamePool \X NamePool : q[1] # q[2]}}

InitMove ==
    /\ pc = "harness"
    /\ treeReady \in BOOLEAN
    /\ outFiles \in EarlierTrees
    /\ madeDirs = BesidesTree(MakeDirs(INPUT_DIR, Len(INPUT_DIR))
                    \cup UNION {MakeDirs(p.dir, Len(p.dir)) : p \in DOMAIN outFiles})
    /\ copies = 0
    /\ inputDir \in InputDirs
    /\ InitObserved

CallMove ==
    /\ pc = "harness"
    /\ ~lastMove.called
    /\ \E name \in NamePool,
          doc_type \in {None} \cup {Some(l) : l \in MoveLabels},
          document_date \in MoveDates, env \in MoveEnvs :
        ApplyMove(JoinFile(INPUT_DIR, name), doc_type, document_date, env)
    /\ UNCHANGED <<pc, crashCause, treeReady, nextDoc, cycleVars,
                   lastClassify, classifierCalls, weekVars>>

NextMove == CallMove

SpecMove == InitMove /\ [][NextMove]_vars

-----------------------------------------------------------------------------
(* The two ways into move_file_to_correct_directory side by side: main run *)
(* from its start, and the function called on its own                      *)

InitTree == Init \/ InitMove

NextTree == Next \/ NextMove

SpecTree == InitTree /\ [][NextTree]_vars

-----------------------------------------------------------------------------
(* get_week_of_month applied to the dates of two years *)

DaysIn(year, month) ==
    IF month = 2 THEN (IF year % 4 = 0 THEN 29 ELSE 28)
    ELSE IF month \in {4, 6, 9, 11} THEN 30 ELSE 31

WeekDates ==
    { date \in [year : {2024, 2025}, month : 1..12, day : 1..31] :
        date.day <= DaysIn(date.year, date.month) }

InitWeek ==
    /\ pc = "week"
    /\ treeReady = FALSE
    /\ madeDirs = {}
    /\ copies = 0
    /\ inputDir = << >>
    /\ outFiles = << >>
    /\ InitObserved

WeekOf ==
    /\ pc = "week"
    /\ \E date \in WeekDates :
        /\ weekDate' = date
        /\ weekResult' = get_week_of_month(date)
    /\ UNCHANGED <<pc, crashCause, treeReady, fsVars, nextDoc, cycleVars,
                   lastMove, lastClassify, classifierCalls>>

NextWeek == WeekOf

SpecWeek == InitWeek /\ [][NextWeek]_vars

-----------------------------------------------------------------------------
(* Properties *)

a_pdf == <<"a", ".", "p", "d", "f">>
a_1_pdf == <<"a", "_", "1", ".", "p", "d", "f">>
a_2_pdf == <<"a", "_", "2", ".", "p", "d", "f">>

\* C1: no step of the sorter overwrites, renames or alters a file of the
\* output tree: every file there stays under its path with its content, and
\* a file that leaves the input directory arrives under a path that held
\* nothing, so the files of a slot keep pairwise distinct names.
C1_NoOverwrite ==
    [][ /\ \A p \in DOMAIN outFiles :
            p \in DOMAIN outFiles' /\ outFiles'[p] = outFiles[p]
        /\ \A n \in DOMAIN inputDir \ DOMAIN inputDir' :
            \E p \in DOMAIN outFiles' \ DOMAIN outFiles :
                /\ outFiles'[p] = inputDir[n]
                /\ DOMAIN outFiles' = DOMAIN outFiles \cup {p} ]_vars

\* two documents with the same basename moved into one slot: the second one
\* sits beside the first under the name with _1
C1_Witness ==
    /\ lastMove.outcome = "moved"
    /\ lastMove.target # lastMove.natural
    /\ \E p \in DOMAIN outFiles :
        /\ p.name = a_pdf
        /\ [dir |-> p.dir, name |-> a_1_pdf] \in DOMAIN outFiles
        /\ outFiles[p].doc # outFiles[[dir |-> p.dir, name |-> a_1_pdf]].doc

\* <stem>_k<ext> in the directory of the path, for a name stem.pdf
Renamed(path, k) ==
    LET n == path.name IN
    [dir |-> path.dir,
     name |-> SubSeq(n, 1, Len(n) - 4) \o <<"_">> \o Str(k) \o DotPdf]

\* C2: the path a move chooses does not exist when it is chosen; it is the
\* natural target <dir>/<stem><ext> when that does not exist, and otherwise
\* <dir>/<stem>_k<ext> for the smallest k >= 1 whose path does not exist
\* (a.pdf present: a_1.pdf; a.pdf and a_1.pdf present: a_2.pdf).
C2_DuplicateResolution ==
    (lastMove.called /\ ~IsNone(lastMove.target)) =>
        LET natural == Get(lastMove.natural)
            chosen == Get(lastMove.target)
            before == lastMove.before
        IN
        /\ chosen \notin before
        /\ natural \notin before => chosen = natural
        /\ natural \in before =>
            \E k \in 1..(Cardinality(before) + 1) :
                /\ chosen = Renamed(natural, k)
                /\ \A j \in 1..(k - 1) : Renamed(natural, j) \in before
        /\ (natural.name = a_pdf /\ natural \in before) =>
            IF [natural EXCEPT !.name = a_1_pdf] \in before
            THEN chosen.name \notin {a_pdf, a_1_pdf}
            ELSE chosen.name = a_1_pdf
        /\ ( /\ natural.name = a_pdf
             /\ natural \in before
             /\ [natural EXCEPT !.name = a_1_pdf] \in before
             /\ [natural EXCEPT !.name = a_2_pdf] \notin before )
            => chosen.name = a_2_pdf

\* a.pdf and a_1.pdf were there, and the file was moved to a_2.pdf
C2_Witness ==
    /\ lastMove.outcome = "moved"
    /\ Get(lastMove.natural).name = a_pdf
    /\ Get(lastMove.natural) \in lastMove.before
    /\ [Get(lastMove.natural) EXCEPT !.name = a_1_pdf] \in lastMove.before
    /\ Get(lastMove.target).name = a_2_pdf
    /\ Get(lastMove.target) \in DOMAIN outFiles

\* the directory of the spec: <OUTPUT_DIR>/<dir(L)>/<year>/Month_<month>/
\* Week_<min(ceil(day/7), 5)>
PlannedDir(L, date) ==
    LET ceil7 == (date.day + 6) \div 7 IN
    << "./sorted_documents",
       CASE L = "Invoice" -> "Invoices"
         [] L = "Protocol" -> "Protocols"
         [] L = "Report" -> "Reports"
         [] OTHER -> L \o "s",
       ToString(date.year),
       "Month_" \o ToString(date.month),
       "Week_" \o ToString(IF ceil7 < 5 THEN ceil7 ELSE 5) >>

\* C3: a successful move with no name clash puts the file at
\* <OUTPUT_DIR>/<dir(L)>/<year>/Month_<month>/Week_<week>/<basename> and
\* returns that path, the directory depending on (L, date) only; Foo goes to
\* Foos, and a.pdf with Invoice on 2024-06-15 to Invoices/2024/Month_6/Week_3.
C3_TargetPath ==
    ( /\ lastMove.outcome = "moved"
      /\ Get(lastMove.natural) \notin lastMove.before ) =>
        LET L == Get(lastMove.doc_type)
            place == [dir |-> PlannedDir(L, lastMove.date),
                      name |-> lastMove.file_path.name]
        IN
        /\ lastMove.result = Some(place)
        /\ place \in DOMAIN outFiles
        /\ outFiles[place] = Get(lastMove.source)
        /\ lastMove.file_path.name \notin DOMAIN inputDir
        /\ L = "Foo" => place.dir[2] = "Foos"
        /\ ( /\ L = "Invoice"
             /\ lastMove.date = [year |-> 2024, month |-> 6, day |-> 15]
             /\ lastMove.file_path.name = a_pdf )
            => place = [dir |-> << "./sorted_documents", "Invoices", "2024",
                                   "Month_6", "Week_3" >>,
                        name |-> a_pdf]

\* a.pdf was moved with the label Foo
C3_Witness ==
    /\ lastMove.outcome = "moved"
    /\ lastMove.doc_type = Some("Foo")
    /\ lastMove.file_path.name = a_pdf
    /\ Get(lastMove.natural) \notin lastMove.before
    /\ \E p \in DOMAIN outFiles : p.dir[2] = "Foos" /\ p.name = a_pdf

\* C4: for a date with day d in 1..31, get_week_of_month is min(ceil(d/7), 5):
\* 1 for days 1-7, 2 for 8-14, 3 for 15-21, 4 for 22-28, 5 for 29-31.
C4_WeekOfMonth ==
    weekDate # NoDate =>
        LET d == weekDate.day
            ceil7 == (d + 6) \div 7
        IN
        /\ d \in 1..31
        /\ weekResult = (IF ceil7 < 5 THEN ceil7 ELSE 5)
        /\ weekResult \in 1..5
        /\ d \in 1..7 => weekResult = 1
        /\ d \in 8..14 => weekResult = 2
        /\ d \in 15..21 => weekResult = 3
        /\ d \in 22..28 => weekResult = 4
        /\ d \in 29..31 => weekResult = 5

\* the function was applied to a 31st
C4_Witness == weekDate.day = 31 /\ weekResult = 5

NotMoved == {"no_text", "no_label", "mkdir_failed", "move_failed"}

C6_BatchNeverAborted ==
    /\ \A i \in DOMAIN outcomes : i <= Len(files) /\ outcomes[i].name = files[i]
    /\ pc = "process" => (idx \in 1..Len(files) /\ Len(outcomes) = idx - 1)
    /\ pc # "process" => Len(outcomes) = Len(files)

\* the first file of a cycle failed and the second one was moved
C6_Witness ==
    /\ pc = "wait"
    /\ Len(files) = 2
    /\ outcomes[1].outcome \in NotMoved
    /\ outcomes[2].outcome = "moved"

LoopPcs == {"poll", "process", "wait"}

\* C7 as stated: no failure stops the process.
C7_NoErrorIsFatal == pc # "crashed"

\* C7 amended: once the poll loop runs, no failure of listing, extraction,
\* classification, directory creation or move stops it, the loop always has
\* a next step; the process stops on its own only when
\* setup_directory_structure or load_classifier raises at start-up.
C7_OnlyStartupIsFatal ==
    /\ pc = "crashed" =>
        crashCause \in {"setup_directory_structure", "load_classifier"}
    /\ pc \in LoopPcs => crashCause = ""
    /\ pc \in LoopPcs => ENABLED (ListFiles \/ ProcessFile \/ Tick)

\* the loop is waiting after a listing that failed
C7_Witness == pc = "wait" /\ lastList = "failed" /\ crashCause = ""

Failed == {"mkdir_failed", "move_failed"}

\* C8 as stated: a failure returns something else than the skip result.
C8_FailureDiffersFromSkip ==
    lastMove.outcome \in Failed => lastMove.result # None

\* C8 amended: when directory creation or the move fails the function
\* returns None, as it does for an absent label; the offending path (the
\* target directory, the source file) and the error go to the log only.
C8_FailureReturnsNone ==
    /\ lastMove.outcome \in Failed =>
        /\ lastMove.result = None
        /\ ~IsNone(lastMove.log)
        /\ Get(lastMove.log).error = "OSError"
        /\ Get(lastMove.log).path =
            (IF lastMove.outcome = "mkdir_failed"
             THEN JoinFile(Get(lastMove.target_dir), <<>>)
             ELSE lastMove.file_path)
    /\ lastMove.outcome = "skip" =>
        lastMove.result = None /\ IsNone(lastMove.log)
    /\ lastMove.outcome = "moved" => ~IsNone(lastMove.result)

\* a move failed, the source is still in the input directory
C8_Witness ==
    /\ lastMove.outcome = "move_failed"
    /\ lastMove.result = None
    /\ lastMove.file_path.name \in DOMAIN inputDir

\* C9: a call with an absent label returns None and changes nothing: no
\* directory is made, the source and the output tree are as they were.
C9_AbsentLabelNoMutation ==
    [][ (~lastMove.called /\ lastMove'.called /\ IsNone(lastMove'.doc_type)) =>
            /\ lastMove'.result = None
            /\ lastMove'.outcome = "skip"
            /\ UNCHANGED <<treeReady, madeDirs, inputDir, outFiles>> ]_vars

\* the function was called with None on an existing source and a tree that
\* holds files
C9_Witness ==
    /\ lastMove.called
    /\ IsNone(lastMove.doc_type)
    /\ lastMove.file_path.name \in DOMAIN inputDir
    /\ outFiles # << >>

\* C10: classify_document returns None on an empty text without calling the
\* classifier: every call the classifier ever got had a non-empty text and
\* the three candidate labels.
C10_EmptyTextNotClassified ==
    /\ \A c \in classifierCalls :
        c.text # <<>> /\ c.labels = <<"Invoice", "Protocol", "Report">>
    /\ (lastClassify.called /\ lastClassify.text = <<>>) =>
        IsNone(lastClassify.doc_type) /\ lastClassify.calls = {}

\* a file gave no text in a run where the classifier has been called on
\* another
C10_Witness ==
    /\ lastClassify.called
    /\ lastClassify.text = <<>>
    /\ classifierCalls # {}

\* C11: whatever goes wrong with the classifier inside classify_document (the
\* call raises, or its result has no first label or no first score to read)
\* ends as the absent result None and never leaves the function: the file is
\* recorded as skipped, it stays where it is and the loop goes on; and when
\* the call returns a result that can be read, classify_document returns the
\* first label of its ranking.
C11_ClassifierFailureIsNone ==
    /\ (lastClassify.called /\ ~IsNone(lastClassify.answer)) =>
        LET answer == Get(lastClassify.answer)
            unusable == \/ answer.raises
                        \/ Len(answer.labels) = 0
                        \/ Len(answer.scores) = 0
        IN
        /\ lastClassify.text # <<>>
        /\ lastClassify.raised = unusable
        /\ unusable => IsNone(lastClassify.doc_type)
        /\ ~unusable => lastClassify.doc_type = Some(Head(answer.labels))
        /\ (unusable /\ pc \in LoopPcs) =>
            /\ crashCause = ""
            /\ outcomes # <<>>
            /\ outcomes[Len(outcomes)].outcome = "no_label"
            /\ outcomes[Len(outcomes)].name \in DOMAIN inputDir
            /\ ENABLED (ProcessFile \/ Tick \/ ListFiles)
    /\ lastClassify.raised => IsNone(lastClassify.doc_type)

\* the classifier raised on the first file of a cycle, and the second file
\* of that cycle was classified and moved
C11_Witness ==
    /\ Len(outcomes) = 2
    /\ outcomes[1].outcome = "no_label"
    /\ outcomes[2].outcome = "moved"
    /\ lastClassify.answer # None
    /\ lastClassify.doc_type = Some(Head(Get(lastClassify.answer).labels))

\* C12: a cycle whose listing of the input directory fails takes up no file
\* and returns 0; it changes no directory and no file, calls neither the
\* classifier nor the move, and raises nothing out of the iteration: main
\* goes on to the countdown, which starts at CHECK_INTERVAL and can only end
\* at the top of the loop, where the directory is listed again.
C12_ListingFailureIsZeroFiles ==
    /\ [](lastList = "failed" =>
            /\ pc \in {"wait", "poll"}
            /\ crashCause = ""
            /\ files = <<>> /\ outcomes = <<>> /\ processed = 0
            /\ ~lastMove.called /\ ~lastClassify.called
            /\ pc = "wait" => ENABLED Tick
            /\ pc = "poll" => ENABLED ListFiles)
    /\ [][ (pc = "poll" /\ nextDoc' = nextDoc /\ lastList' = "failed") =>
            /\ pc' = "wait"
            /\ remaining' = CHECK_INTERVAL
            /\ processed' = 0
            /\ UNCHANGED <<treeReady, madeDirs, copies, inputDir, outFiles,
                           classifierCalls>> ]_vars
    /\ [][ (pc = "wait" /\ lastList = "failed" /\ pc' # "wait") =>
            (pc' = "poll" /\ remaining = 1 /\ UNCHANGED fsVars) ]_vars

\* the listing failed while a .pdf file was waiting in the input directory,
\* after a cycle that had moved another one
C12_Witness ==
    /\ lastList = "failed"
    /\ pc = "wait"
    /\ \E n \in DOMAIN inputDir : EndsWith(n, DotPdf)
    /\ outFiles # << >>

\* C13: once started the poll loop never ends and goes round Listing ->
\* PerFileProcessing -> Waiting -> Listing: from the listing it goes to the
\* files of the batch or, with none, to the countdown; from the batch to the
\* countdown; the countdown starts at CHECK_INTERVAL, shows CHECK_INTERVAL,
\* ..., 1, one second apart, changes nothing but the remaining time, and
\* only after the 1 does the loop list again; and the loop always comes back
\* to the listing and to the countdown.
C13_PollLoopForever ==
    /\ [](pc = "wait" <=> remaining \in 1..CHECK_INTERVAL)
    /\ [][ /\ pc = "poll" => pc' \in {"poll", "process", "wait"}
           /\ pc = "process" => pc' \in {"process", "wait"}
           /\ pc = "wait" => pc' \in {"wait", "poll"}
           /\ (pc = "poll" /\ pc' = "poll") =>
                (nextDoc' = nextDoc + 1 /\ UNCHANGED <<cycleVars, outFiles>>)
           /\ (pc # "wait" /\ pc' = "wait") => remaining' = CHECK_INTERVAL
           /\ pc = "wait" =>
                /\ remaining' = remaining - 1
                /\ pc' = "poll" <=> remaining = 1
                /\ UNCHANGED <<crashCause, treeReady, fsVars, nextDoc, files,
                               idx, processed, listed, outcomes, lastList,
                               lastMove, lastClassify, classifierCalls>>
         ]_vars
    /\ [](pc \in LoopPcs => <>(pc = "wait" /\ remaining = CHECK_INTERVAL))
    /\ [](pc \in LoopPcs => <>(pc = "poll"))

\* the last second of the countdown that follows a cycle which moved a file
C13_Witness ==
    /\ pc = "wait"
    /\ remaining = 1
    /\ CHECK_INTERVAL > 1
    /\ processed > 0

\* the tree of the spec, spelled out: every type x year 2020..2030 x month
\* 1..12 x week 1..5 under the output root
TreeAsSpecified ==
    { << "./sorted_documents", type, ToString(year),
         "Month_" \o ToString(month), "Week_" \o ToString(week) >> :
        type \in {"Invoices", "Protocols", "Reports"}, year \in 2020..2030,
        month \in 1..12, week \in 1..5 }

TreeComplete ==
    /\ Cardinality(TreeAsSpecified) = 3 * 11 * 12 * 5
    /\ TreeAsSpecified \subseteq SetupTree

InMain == pc \in {"setup", "load", "crashed"} \cup LoopPcs

\* C14: main creates the directory of every type in {Invoices, Protocols,
\* Reports}, year in 2020..2030, month in 1..12 and week in 1..5 before the
\* loop starts, so before the first listing and before any move; hence a
\* move for a known label and a year in 2020..2030 finds its target directory
\* in that tree, os.makedirs adding nothing, while for any other label or
\* year (or when the function is called without the start-up) the target
\* directory and its missing ancestors are made by the move itself.
C14_TreeBeforeFirstListing ==
    /\ treeReady => TreeComplete
    /\ InMain =>
        /\ pc \in LoopPcs => treeReady
        /\ ~treeReady =>
            /\ pc \in {"setup", "crashed"}
            /\ lastList = "none" /\ ~lastMove.called
            /\ outFiles = << >> /\ madeDirs = {}
    /\ (lastMove.called /\ ~IsNone(lastMove.doc_type)) =>
        LET L == Get(lastMove.doc_type)
            dir == Get(lastMove.target_dir)
            known == /\ L \in {"Invoice", "Protocol", "Report"}
                     /\ lastMove.date.year \in 2020..2030
        IN
        /\ (treeReady /\ known) =>
            /\ dir \in TreeAsSpecified
            /\ dir \notin madeDirs
        /\ (treeReady /\ ~known) => dir \notin TreeAsSpecified
        /\ (~(treeReady /\ known) /\ lastMove.outcome \in {"moved", "move_failed"}) =>
            /\ dir \in madeDirs
            /\ \A k \in 1..Len(dir) :
                \/ SubSeq(dir, 1, k) \in madeDirs
                \/ treeReady /\ SubSeq(dir, 1, k) \in SetupTree

\* after the start-up a file was moved under a year the tree does not hold,
\* into a directory made for it
C14_Witness ==
    /\ treeReady
    /\ lastMove.outcome = "moved"
    /\ lastMove.date.year = 2031
    /\ Get(lastMove.target_dir) \in madeDirs
    /\ \E p \in DOMAIN outFiles : p.dir = Get(lastMove.target_dir)

n_txt == <<"n", ".", "t", "x", "t">>

\* a name the listing takes: it ends in .pdf and names an entry of the input
\* directory itself
Taken(name) ==
    /\ EndsWith(name, DotPdf)
    /\ \A i \in 1..Len(name) : name[i] # "/"

\* C15: a cycle takes up only entries of the input directory itself whose
\* name ends in ".pdf": the names of a listing, the files extracted and
\* classified and the sources of the moves are all such names; a file whose
\* name does not end in ".pdf", or that lies in a subdirectory of the input
\* directory, stays where it is with its content in every step, and nothing
\* of it ever reaches the output tree.
C15_OnlyDirectPdfTaken ==
    /\ [](InMain =>
            /\ \A i \in DOMAIN files : Taken(files[i])
            /\ \A i \in DOMAIN outcomes : Taken(outcomes[i].name)
            /\ \A n \in DOMAIN listed : Taken(n)
            /\ lastMove.called =>
                (lastMove.file_path.dir = INPUT_DIR /\ Taken(lastMove.file_path.name))
            /\ \A k \in DOMAIN inputDir : ~Taken(k) =>
                \A p \in DOMAIN outFiles : outFiles[p].doc # inputDir[k].doc)
    /\ [][ \A k \in DOMAIN inputDir : ~Taken(k) =>
                (k \in DOMAIN inputDir' /\ inputDir'[k] = inputDir[k]) ]_vars

\* a.pdf of the input directory was moved in a cycle, while a.pdf of its
\* subdirectory s stayed
C15_Witness ==
    /\ pc = "wait"
    /\ lastMove.outcome = "moved"
    /\ lastMove.file_path.name = a_pdf
    /\ SubDirFile \in DOMAIN inputDir
    /\ a_pdf \notin DOMAIN inputDir

\* the same with a file that is no .pdf
C15_WitnessTxt ==
    /\ pc = "wait"
    /\ lastMove.outcome = "moved"
    /\ n_txt \in DOMAIN inputDir

\* the .pdf names a file can wait under
PdfPool == {n \in NamePool : Taken(n)}

\* the documents a directory holds
Docs(tree) == {tree[k].doc : k \in DOMAIN tree}

Waiting(n) == pc \in LoopPcs /\ n \in DOMAIN inputDir

\* nothing fails for the file under the name n whenever it is taken up
NeverFails(n) ==
    \A i \in DOMAIN outcomes :
        outcomes[i].name = n => outcomes[i].outcome = "moved"

MovedNow(n) ==
    /\ lastMove.outcome = "moved"
    /\ lastMove.file_path.name = n
    /\ n \notin DOMAIN inputDir
    /\ Get(lastMove.result) \in DOMAIN outFiles

\* what holds of every step and state, whatever the listing does: a file
\* taken up whose text, label, directory and move all come through is moved
\* in that step, to a new path of the output tree that holds its content and
\* is returned, and is counted; a batch is always worked off to its end; a
\* file moved in a cycle is out of the input directory; and a document that
\* has left the input directory never comes back to it, so that it is
\* listed and moved at most once.
C16_MovedOnce ==
    /\ [](pc \in {"process", "wait"} =>
            \A i \in DOMAIN outcomes :
                outcomes[i].outcome = "moved" =>
                    outcomes[i].name \notin DOMAIN inputDir)
    /\ [][ ( /\ pc = "process"
             /\ lastClassify'.text # <<>>
             /\ ~IsNone(lastClassify'.doc_type)
             /\ lastMove'.outcome \notin Failed ) =>
            /\ files[idx] \notin DOMAIN inputDir'
            /\ outcomes'[idx] = [name |-> files[idx], outcome |-> "moved"]
            /\ processed' = processed + 1
            /\ \E p \in DOMAIN outFiles' \ DOMAIN outFiles :
                /\ outFiles'[p] = inputDir[files[idx]]
                /\ lastMove'.result = Some(p) ]_vars
    /\ [][ \A d \in 1..nextDoc :
            d \notin Docs(inputDir) => d \notin Docs(inputDir') ]_vars
    /\ [](pc = "process" => <>(pc = "wait" /\ Len(outcomes) = Len(files)))

\* C16 as stated: under fairness of the loop a .pdf file for which nothing
\* fails is eventually moved.
C16_EventuallyMoved ==
    /\ C16_MovedOnce
    /\ \A n \in PdfPool :
        ([]NeverFails(n)) => [](Waiting(n) => <>MovedNow(n))

\* C16 amended: under fairness of the loop, and provided the listing of the
\* input directory does not fail for ever, a .pdf file of the input directory
\* for which extraction, classification, directory creation and move do not
\* fail is eventually moved into the output tree, in the first cycle that
\* lists it; from then on it is out of the input directory and is never
\* listed or moved again.
C16_MovedWhenListed ==
    /\ C16_MovedOnce
    /\ \A n \in PdfPool :
        (([]NeverFails(n)) /\ []<>(lastList # "failed"))
            => [](Waiting(n) => <>MovedNow(n))

\* both files of a listing were moved in the cycle that listed them
C16_Witness ==
    /\ pc = "wait"
    /\ Len(files) = 2
    /\ processed = 2
    /\ \A i \in DOMAIN files : files[i] \notin DOMAIN inputDir
    /\ Cardinality({p \in DOMAIN outFiles : outFiles[p].whole}) = 2

\* the contents a file can have, and how many files of two directories hold
\* a given one
AllContents == [doc : 0..MaxDocs, whole : BOOLEAN]

Held(input, output, c) ==
    Cardinality({k \in DOMAIN input : input[k] = c})
        + Cardinality({p \in DOMAIN output : output[p] = c})

\* C17 as stated: in every step of the sorter (the producer apart) the
\* collection of file contents held in the input directory and the output
\* tree together stays as it is: a move takes one file out of the one and
\* puts one file with that content into the other, every skip and every
\* failure leaves both unchanged, no document is lost or duplicated.
C17_Conservation ==
    [][ nextDoc' = nextDoc =>
            \A c \in AllContents :
                Held(inputDir', outFiles', c) = Held(inputDir, outFiles, c) ]_vars

\* C17, the part the code keeps: no document is ever lost, each one dropped is
\* held whole in the input directory or the output tree; a successful move
\* conserves the contents; a skip changes nothing; a failure leaves the input
\* directory as it is and the output tree as it is or with one more file,
\* the part or the whole of the source that shutil.move had copied.
C17_NothingLost ==
    /\ [](\A d \in 1..nextDoc :
            Held(inputDir, outFiles, [doc |-> d, whole |-> TRUE]) >= 1)
    /\ [][ (pc = "process" /\ outcomes'[idx].outcome = "moved") =>
            \A c \in AllContents :
                Held(inputDir', outFiles', c) = Held(inputDir, outFiles, c) ]_vars
    /\ [][ (pc = "process" /\ outcomes'[idx].outcome \in {"no_text", "no_label"}) =>
            UNCHANGED <<inputDir, outFiles, madeDirs>> ]_vars
    /\ [][ (pc = "process" /\ outcomes'[idx].outcome \in Failed) =>
            /\ UNCHANGED inputDir
            /\ \/ UNCHANGED outFiles
               \/ \E p \in DOMAIN outFiles' \ DOMAIN outFiles :
                    /\ DOMAIN outFiles' = DOMAIN outFiles \cup {p}
                    /\ \A q \in DOMAIN outFiles : outFiles'[q] = outFiles[q]
                    /\ outFiles'[p].doc = inputDir[files[idx]].doc
                    /\ outcomes'[idx].outcome = "move_failed" ]_vars
    /\ [][ pc # "process" => UNCHANGED outFiles ]_vars

\* a document is held whole more than once: a move of it failed after the
\* copy had been written, so the copy is in the output tree while the file
\* is still in the input directory, or has been moved beside the copy since
C17_Witness ==
    \E d \in 1..nextDoc :
        /\ Held(inputDir, outFiles, [doc |-> d, whole |-> TRUE]) >= 2
        /\ Held(<< >>, outFiles, [doc |-> d, whole |-> TRUE]) >= 1

====
